---- MODULE Spec2Model ----
(***************************************************************************)
(* Model of the versioned export / archival subsystem of                   *)
(* scripts/export_mod.py (class ModExporter).                              *)
(*                                                                         *)
(* File names and version strings are sequences of one-character strings,  *)
(* so that glob matching, Path.stem, str.replace, str.split, int() and     *)
(* f-string formatting are computed the way the Python code computes them. *)
(***************************************************************************)
EXTENDS Integers, Sequences, FiniteSets, TLC

VARIABLES
    archives,   \* names of the files in the directory scanned for archives
    parent_archives, \* names of the files in the parent of that directory
    returned,   \* what the calls of a harness returned so far, in call order
    phase,      \* harness position: "setup" | "called" | "touched" | "done" (allocator),
                \* "export", "filter", and in copy_tree how rsync ended
    pc,         \* position of export(): "Idle", the stage about to run, or how it ended
    dest_dir,   \* export's dest_dir, "none" before it is resolved
    source,     \* the tree at mod_source_dir
    exported,   \* the tree at mod_dest = dest_dir / mod_name
    version,    \* create_archive's version
    src_ok,     \* what update_info_version returned in this run
    exp_ok,     \* what update_exported_info_version returned in this run
    arch_ok,    \* what create_archive returned in this run
    archive_name, \* create_archive's archive_name, <<>> before it is computed
    mod_dest,   \* export's mod_dest, the path of the exported tree, <<>> before it is computed
    zip_entries, \* the internal paths of the archive this run wrote
    zip_info,   \* the info.json stored in that archive, NoFile when it holds none
    other,      \* a second export process running at the same time: its position and locals
    at_start,   \* history: the source manifest and the archive listings when this run started
    env,        \* the destination sources the process finds, AnyEnv when left open
    info_before,  \* history: the source info.json update_info_version found
    mutated,    \* history: some step of this run changed a file or directory
    prev,       \* history: summary of the previous export run
    nruns       \* export runs finished

fs == <<archives, parent_archives, source, exported>>

exportVars == <<pc, dest_dir, source, exported, version, src_ok, exp_ok, arch_ok,
                archive_name, info_before, mutated, prev, nruns,
                parent_archives, mod_dest, zip_entries, env, zip_info, at_start, other>>

vars == <<archives, returned, phase, pc, dest_dir, source, exported, version,
          src_ok, exp_ok, arch_ok, archive_name, info_before, mutated, prev, nruns,
          parent_archives, mod_dest, zip_entries, env, zip_info, at_start, other>>

\* no second process
NoOther == [pc |-> "Idle", version |-> <<>>, copied |-> {}, cut |-> FALSE]

\* what a run finds when it starts
Snapshot == [info |-> source.info, archives |-> archives, parent_archives |-> parent_archives]

----------------------------------------------------------------------------
(* Bounds *)

\* components of the longest path the file system lets a copy create
MaxPathLen == 6
\* should_exclude calls in one run of the filter harness
MaxFilterCalls == 2
\* files the environment places in the directory before the first call
MaxFiles == 4
\* get_next_version calls in one run of the sequential harness
MaxCalls == 5
\* export runs in one behaviour
MaxExports == 2

----------------------------------------------------------------------------
(* Strings *)

Digits == <<"0", "1", "2", "3", "4", "5", "6", "7", "8", "9">>

IsDigit(c) == \E i \in 1..10 : Digits[i] = c

DigitVal(c) == (CHOOSE i \in 1..10 : Digits[i] = c) - 1

StartsWith(s, p) == Len(s) >= Len(p) /\ SubSeq(s, 1, Len(p)) = p

EndsWith(s, p) == Len(s) >= Len(p) /\ SubSeq(s, Len(s) - Len(p) + 1, Len(s)) = p

\* str.replace(old, ""): every non-overlapping occurrence, left to right
RECURSIVE RemoveAll(_, _)
RemoveAll(s, old) ==
    IF s = <<>> THEN <<>>
    ELSE IF StartsWith(s, old) THEN RemoveAll(SubSeq(s, Len(old) + 1, Len(s)), old)
    ELSE <<Head(s)>> \o RemoveAll(Tail(s), old)

\* str.split(sep) for a one-character separator: always at least one part
RECURSIVE SplitAcc(_, _, _)
SplitAcc(s, sep, cur) ==
    IF s = <<>> THEN <<cur>>
    ELSE IF Head(s) = sep THEN <<cur>> \o SplitAcc(Tail(s), sep, <<>>)
    ELSE SplitAcc(Tail(s), sep, Append(cur, Head(s)))

Split(s, sep) == SplitAcc(s, sep, <<>>)

\* PurePath.stem: the name without its last suffix
LastDot(s) == IF \E i \in 1..Len(s) : s[i] = "."
              THEN CHOOSE i \in 1..Len(s) : s[i] = "." /\ \A j \in (i+1)..Len(s) : s[j] # "."
              ELSE 0

\* a stem that keeps the suffix
StemKeepsSuffix(s) == s

Stem(s) == IF LastDot(s) > 1 /\ LastDot(s) < Len(s) THEN SubSeq(s, 1, LastDot(s) - 1) ELSE s

RECURSIVE DigitsValue(_, _)
DigitsValue(s, acc) ==
    IF s = <<>> THEN acc
    ELSE IF Head(s) = "_" THEN DigitsValue(Tail(s), acc)
    ELSE DigitsValue(Tail(s), 10 * acc + DigitVal(Head(s)))

\* int(s) on the model's alphabet: an optional sign, then digits that single
\* underscores may separate; anything else raises ValueError (ok = FALSE)
IntBody(s) == IF s # <<>> /\ Head(s) \in {"-", "+"} THEN Tail(s) ELSE s

IntLiteralOk(s) ==
    LET b == IntBody(s) IN
    /\ b # <<>>
    /\ \A i \in 1..Len(b) : IsDigit(b[i]) \/ b[i] = "_"
    /\ IsDigit(b[1]) /\ IsDigit(b[Len(b)])
    /\ \A i \in 1..(Len(b) - 1) : ~(b[i] = "_" /\ b[i+1] = "_")

ParseInt(s) ==
    IF IntLiteralOk(s)
    THEN [ok |-> TRUE,
          val |-> IF Head(s) = "-" THEN 0 - DigitsValue(IntBody(s), 0)
                  ELSE DigitsValue(IntBody(s), 0)]
    ELSE [ok |-> FALSE, val |-> 0]

\* str(n), as the f-string renders it: no padding
RECURSIVE IntToStr(_)
IntToStr(n) == IF n < 0 THEN <<"-">> \o IntToStr(0 - n)
               ELSE IF n < 10 THEN <<Digits[n + 1]>>
               ELSE IntToStr(n \div 10) \o <<Digits[(n % 10) + 1]>>

Max(a, b) == IF a >= b THEN a ELSE b

\* every order in which a directory listing can yield the files of S
RECURSIVE Listings(_)
Listings(S) == IF S = {} THEN {<<>>}
               ELSE UNION {{<<f>> \o l : l \in Listings(S \ {f})} : f \in S}

----------------------------------------------------------------------------
(* Version Allocator: ModExporter.get_next_version *)

\* self.mod_name ("PollutionSolutionsLite", abbreviated)
mod_name == <<"P", "S", "L">>

ZipSuffix == <<".", "z", "i", "p">>

\* pattern = f"{self.mod_name}_1.1.*.zip"
GlobPrefix == mod_name \o <<"_", "1", ".", "1", ".">>

\* whether dest_dir.glob(pattern) yields a file of this name
GlobMatch(name) ==
    /\ Len(name) >= Len(GlobPrefix) + Len(ZipSuffix)
    /\ StartsWith(name, GlobPrefix)
    /\ EndsWith(name, ZipSuffix)

Glob(dir) == {f \in dir : GlobMatch(f)}

\* a loop body that keeps the last patch number seen instead of the highest
ScanOneKeepsLast(zip_file, max_patch) ==
    LET parts == Split(RemoveAll(Stem(zip_file), mod_name \o <<"_">>), ".")
    IN  IF Len(parts) = 3 /\ ParseInt(parts[3]).ok
        THEN ParseInt(parts[3]).val
        ELSE max_patch

\* one pass of the loop body over zip_file: the new max_patch
ScanOne(zip_file, max_patch) ==
    LET filename     == Stem(zip_file)
        version_part == RemoveAll(filename, mod_name \o <<"_">>)
        parts        == Split(version_part, ".")
    IN  IF Len(parts) = 3 /\ ParseInt(parts[3]).ok
        THEN Max(max_patch, ParseInt(parts[3]).val)
        ELSE max_patch

\* the for loop over existing_zips, in listing order
RECURSIVE ScanAll(_, _)
ScanAll(existing_zips, max_patch) ==
    IF existing_zips = <<>> THEN max_patch
    ELSE ScanAll(Tail(existing_zips), ScanOne(Head(existing_zips), max_patch))

\* an allocator that returns the highest patch found instead of the next one
GetNextVersionKeepsMax(existing_zips) ==
    IF existing_zips = <<>>
    THEN <<"1", ".", "1", ".", "1">>
    ELSE <<"1", ".", "1", ".">> \o IntToStr(ScanAll(existing_zips, 0))

\* get_next_version, given the list the glob produced
get_next_version(existing_zips) ==
    IF existing_zips = <<>>
    THEN <<"1", ".", "1", ".", "1">>
    ELSE <<"1", ".", "1", ".">> \o IntToStr(ScanAll(existing_zips, 0) + 1)

\* archive_name = f"{self.mod_name}_{version}.zip"
ArchiveName(ver) == mod_name \o <<"_">> \o ver \o ZipSuffix

----------------------------------------------------------------------------
(* Pattern-based Tree Filter: ModExporter.should_exclude *)

\* self.exclude_patterns
exclude_patterns ==
    << <<".", "g", "i", "t">>,
       <<".", "g", "i", "t", "i", "g", "n", "o", "r", "e">>,
       <<".", "g", "i", "t", "h", "u", "b">>,
       <<"s", "c", "r", "i", "p", "t", "s">>,
       <<"d", "o", "c", "s">>,
       <<"t", "e", "s", "t", "s">>,
       <<"r", "u", "n", "_", "t", "e", "s", "t", "s", ".", "l", "u", "a">>,
       <<"f", "a", "c", "t", "o", "r", "i", "o">>,
       <<"_", "_", "p", "y", "c", "a", "c", "h", "e", "_", "_">>,
       <<"*", ".", "p", "y", "c">>,
       <<".", "v", "s", "c", "o", "d", "e">>,
       <<".", "i", "d", "e", "a">>,
       <<".", "v", "e", "n", "v">>,
       <<"v", "e", "n", "v">>,
       <<".", "e", "d", "i", "t", "o", "r", "c", "o", "n", "f", "i", "g">>,
       <<".", "l", "u", "a", "r", "c", ".", "j", "s", "o", "n">>,
       <<".", "m", "a", "r", "k", "d", "o", "w", "n", "l", "i", "n", "t", "i", "g", "n", "o", "r", "e">>,
       <<".", "s", "t", "y", "l", "u", "a", ".", "t", "o", "m", "l">>,
       <<"P", "R", "O", "J", "E", "C", "T", "_", "S", "T", "R", "U", "C", "T", "U", "R", "E", ".", "m", "d">>,
       <<"v", "a", "l", "i", "d", "a", "t", "e", "_", "c", "o", "n", "f", "i", "g", ".", "s", "h">>,
       <<"*", ".", "z", "i", "p">>,
       <<"*", ".", "t", "a", "r", ".", "g", "z">> >>

\* A path relative to the tree's root is the sequence of its components, each
\* a sequence of characters.  str(relative): the components joined by "/".
RECURSIVE PathStr(_)
PathStr(path) ==
    IF Len(path) = 1 THEN path[1]
    ELSE path[1] \o <<"/">> \o PathStr(Tail(path))

\* the test of one pattern in the loop body
PatternMatches(pattern, path) ==
    IF Head(pattern) = "*"
    THEN EndsWith(path[Len(path)], Tail(pattern))
    ELSE StartsWith(PathStr(path), pattern) \/ path[Len(path)] = pattern

\* a loop that tests the first pattern only
ExcludedByFirst(patterns, path) ==
    patterns # <<>> /\ PatternMatches(Head(patterns), path)

\* the for loop over the patterns, returning at the first match
RECURSIVE ExcludedBy(_, _)
ExcludedBy(patterns, path) ==
    IF patterns = <<>> THEN FALSE
    ELSE IF PatternMatches(Head(patterns), path) THEN TRUE
    ELSE ExcludedBy(Tail(patterns), path)

should_exclude(path) == ExcludedBy(exclude_patterns, path)

----------------------------------------------------------------------------
(* Trees.  A tree is [exists, entries, info]: whether the directory exists,  *)
(* the relative paths below it other than info.json, and the content of its  *)
(* info.json.                                                                *)

InfoName == <<"i", "n", "f", "o", ".", "j", "s", "o", "n">>

NoFile == [kind |-> "absent", indent |-> "", pairs |-> <<>>]

NoTree == [exists |-> FALSE, entries |-> {}, info |-> NoFile]

\* names of the entries the trees are built from
CLua == <<"c", ".", "l", "u", "a">>
TestsDir == <<"t", "e", "s", "t", "s">>
TLua == <<"t", ".", "l", "u", "a">>
DocsLua == <<"d", "o", "c", "s", ".", "l", "u", "a">>
Lib == <<"l", "i", "b">>
XLua == <<"x", ".", "l", "u", "a">>
Out == <<"o", "u", "t">>
Factorio == <<"f", "a", "c", "t", "o", "r", "i", "o">>
Mods == <<"m", "o", "d", "s">>

\* the names that are directories; every other name is a regular file
DirNames == {TestsDir, Lib, Out, Factorio, Mods, mod_name}

\* item.is_dir(), file_path.is_file()
is_dir(path) == path[Len(path)] \in DirNames

is_file(path) == ~is_dir(path)

\* the regular files among what tree.rglob('*') yields, relative to the tree
rglob_files(tree) ==
    {e \in tree.entries : is_file(e)}
        \cup (IF tree.info.kind # "absent" THEN {<<InfoName>>} ELSE {})

Ancestors(path) == {SubSeq(path, 1, n) : n \in 1..(Len(path) - 1)}

AncestorClosed(S) == \A e \in S : Ancestors(e) \subseteq S

\* what the fallback strategy writes: every entry rglob yields that the
\* filter keeps, and the parents mkdir(parents=True) creates for it
FallbackEntries(entries) ==
    LET kept == {e \in entries : ~should_exclude(e)}
    IN  kept \cup UNION {Ancestors(e) : e \in kept}

FallbackInfo(info) ==
    IF info.kind # "absent" /\ ~should_exclude(<<InfoName>>) THEN info ELSE NoFile

\* rsync --exclude PATTERN for a pattern without "/": the pattern is matched
\* against the name of every entry visited, "*" standing for any run of
\* characters, and an excluded directory is not descended into
RsyncNameExcluded(name) ==
    \E i \in 1..Len(exclude_patterns) :
        IF Head(exclude_patterns[i]) = "*"
        THEN EndsWith(name, Tail(exclude_patterns[i]))
        ELSE name = exclude_patterns[i]

RsyncEntries(entries) ==
    {e \in entries : \A n \in 1..Len(e) : ~RsyncNameExcluded(e[n])}

RsyncInfo(info) ==
    IF info.kind # "absent" /\ ~RsyncNameExcluded(InfoName) THEN info ELSE NoFile

\* dst after files were written into it: what was there stays, what is
\* copied replaces its namesake
Merge(dst, entries, info) ==
    [exists  |-> TRUE,
     entries |-> dst.entries \cup entries,
     info    |-> IF info.kind # "absent" THEN info ELSE dst.info]

\* what a copy that stopped part-way can have written
Partial(entries) == {P \in SUBSET entries : AncestorClosed(P)}

----------------------------------------------------------------------------
(* Manifest Version Store: update_info_version, update_exported_info_version *)

\* json.load of an object: one entry per key, at the place of the key's first
\* occurrence, with the value of its last
LastValue(pairs, key) ==
    pairs[CHOOSE i \in 1..Len(pairs) :
            pairs[i].key = key /\ \A j \in (i+1)..Len(pairs) : pairs[j].key # key]

RECURSIVE LoadPairs(_, _, _)
LoadPairs(pairs, all, seen) ==
    IF pairs = <<>> THEN <<>>
    ELSE IF Head(pairs).key \in seen THEN LoadPairs(Tail(pairs), all, seen)
    ELSE <<LastValue(all, Head(pairs).key)>>
             \o LoadPairs(Tail(pairs), all, seen \cup {Head(pairs).key})

\* json.load(f): ok = FALSE when open or the parse raises
json_load(file) ==
    IF file.kind \in {"absent", "corrupt"} THEN [ok |-> FALSE, kind |-> "", info |-> <<>>]
    ELSE [ok |-> TRUE, kind |-> file.kind, info |-> LoadPairs(file.pairs, file.pairs, {})]

HasKey(info, key) == \E i \in 1..Len(info) : info[i].key = key

\* a rewrite that keeps nothing but the version
SetVersionOnly(info, ver) ==
    <<[key |-> "version", type |-> "string", text |-> ver]>>

\* info['version'] = version
SetVersion(info, ver) ==
    LET item == [key |-> "version", type |-> "string", text |-> ver]
    IN  IF HasKey(info, "version")
        THEN [i \in 1..Len(info) |-> IF info[i].key = "version" THEN item ELSE info[i]]
        ELSE Append(info, item)

\* json.dump(info, f, indent='\t')
json_dump(info) == [kind |-> "object", indent |-> "tab", pairs |-> info]

Truncated == [kind |-> "corrupt", indent |-> "", pairs |-> <<>>]

\* how open(path, 'w') followed by json.dump can end
WriteOutcomes == {"ok", "open_fails", "write_fails"}

\* the try block of both update functions: the file afterwards and the value
\* returned.  A top-level array parses, and is no dict: reading or setting
\* its 'version' raises.
UpdateVersion(file, ver, outcome) ==
    LET doc == json_load(file) IN
    IF ~doc.ok \/ doc.kind # "object" THEN [file |-> file, ok |-> FALSE]
    ELSE IF outcome = "open_fails" THEN [file |-> file, ok |-> FALSE]
    ELSE IF outcome = "write_fails" THEN [file |-> Truncated, ok |-> FALSE]
    ELSE [file |-> json_dump(SetVersion(doc.info, ver)), ok |-> TRUE]

update_info_version(file, ver, outcome) == UpdateVersion(file, ver, outcome)

\* an exported-manifest update that rewrites the file without the new version
UpdateExportedKeepsVersion(file, ver, outcome) ==
    IF json_load(file).ok /\ json_load(file).kind = "object" /\ outcome = "ok"
    THEN [file |-> json_dump(json_load(file).info), ok |-> TRUE]
    ELSE UpdateVersion(file, ver, outcome)

update_exported_info_version(file, ver, outcome) == UpdateVersion(file, ver, outcome)

----------------------------------------------------------------------------
(* Export Orchestrator: ModExporter.export, create_archive, main *)

\* directories a destination can name: "mods" exists, "missing" does not
DirOpts == {"none", "mods", "missing"}

\* "dev" is the directory that holds the source checkout
DirExists(d) == d \in {"mods", "dev"}

\* the destination sources of a process: sys.argv[1], the configuration
\* file, <source>/factorio, the platform
Environment(user_path, config_dir, symlink, os_default) ==
    [user_path |-> user_path, config_dir |-> config_dir,
     symlink |-> symlink, os_default |-> os_default]

AnyEnv == Environment("any", "any", "any", "any")

Environments ==
    { Environment(u, c, s, o) : u \in DirOpts, c \in DirOpts, s \in DirOpts, o \in DirOpts }

\* a resolution that consults the configuration before the argument
GetDestinationConfigFirst(user_path, config_dir, symlink, os_default) ==
    IF config_dir # "none" /\ DirExists(config_dir) THEN config_dir
    ELSE IF user_path # "none" THEN user_path
    ELSE IF symlink # "none" THEN symlink
    ELSE os_default

\* get_destination_dir: user_path, what get_mods_dir_from_config returns,
\* where <source>/factorio/mods leads when that link or directory exists
\* ("none": it does not), what get_default_mods_dir returns
get_destination_dir(user_path, config_dir, symlink, os_default) ==
    IF user_path # "none" THEN user_path
    ELSE IF config_dir # "none" /\ DirExists(config_dir) THEN config_dir
    ELSE IF symlink # "none" THEN symlink
    ELSE os_default

\* Path(d) for a directory named d, as the sequence of its components
DirPath(d) == <<"home", d>>

\* the one destination that exists
ModsDir == DirPath("mods")

\* the path of src: self.mod_source_dir, the checkout of the repository under
\* the name of the mod
SrcDir == DirPath("dev") \o <<mod_name>>

\* Path.parent
Parent(path) == SubSeq(path, 1, Len(path) - 1)

\* the directory above the one that holds the exported tree
DestParentAbove == Parent(Parent(mod_dest))

\* create_archive's dest_parent
dest_parent == Parent(mod_dest)

\* create_archive's archive_path
archive_path == dest_parent \o <<archive_name>>

\* file_path.relative_to(mod_dest)
relative_to(file_path, base) == SubSeq(file_path, Len(base) + 1, Len(file_path))

\* an internal path that keeps the name the exported directory has on disk
ArcNameOnDisk(file_path, base) == <<base[Len(base)]>> \o relative_to(file_path, base)

\* arcname = self.mod_name / file_path.relative_to(mod_dest)
arcname(file_path, base) == <<mod_name>> \o relative_to(file_path, base)

\* the files the loop over mod_dest.rglob('*') writes into the archive
ZipContent(tree, base) ==
    { arcname(base \o rel, base) : rel \in rglob_files(tree) }

\* the names of the files in a directory
Listing(dir) ==
    IF dir = ModsDir THEN archives
    ELSE IF dir = Parent(ModsDir) THEN parent_archives
    ELSE {}

NoRun == [done |-> FALSE, archived |-> FALSE, version |-> <<>>, copied |-> {}]

\* history: whether this step changed the file system
Mutation == mutated' = (mutated \/ fs' # fs)

\* main(): a new process calls export
StartExport ==
    /\ pc = "Idle"
    /\ nruns < MaxExports
    /\ pc' = "ResolvingDestination"
    /\ dest_dir' = "none"
    /\ version' = <<>>
    /\ src_ok' = FALSE /\ exp_ok' = FALSE /\ arch_ok' = FALSE
    /\ archive_name' = <<>>
    /\ info_before' = NoFile
    /\ mutated' = FALSE
    /\ mod_dest' = <<>>
    /\ zip_entries' = {}
    /\ zip_info' = NoFile
    /\ at_start' = Snapshot
    /\ UNCHANGED <<env, other, archives, parent_archives, returned, phase, source, exported, prev, nruns>>

ResolveDestination ==
    /\ pc = "ResolvingDestination"
    /\ \E user_path \in DirOpts, config_dir \in DirOpts, symlink \in DirOpts, os_default \in DirOpts :
           /\ env \in {AnyEnv, Environment(user_path, config_dir, symlink, os_default)}
           /\ dest_dir' = get_destination_dir(user_path, config_dir, symlink, os_default)
    /\ pc' = IF dest_dir' = "none" THEN "Failed" ELSE "Validating"
    /\ UNCHANGED <<env, zip_info, at_start, other, archives, parent_archives, mod_dest, zip_entries, returned, phase, source, exported, version,
                   src_ok, exp_ok, arch_ok, mutated, prev, nruns, archive_name, info_before>>

\* a validation that checks the source only
ValidateSourceOnly ==
    /\ pc = "Validating"
    /\ pc' = IF ~source.exists THEN "Failed" ELSE "Cleaning"
    /\ UNCHANGED <<env, zip_info, at_start, other, archives, parent_archives, mod_dest, zip_entries, returned, phase, dest_dir, source, exported, version,
                   src_ok, exp_ok, arch_ok, mutated, prev, nruns, archive_name, info_before>>

\* a validation that waits for the destination directory to appear
ValidateWaitsForDestination ==
    /\ pc = "Validating"
    /\ DirExists(dest_dir)
    /\ pc' = IF ~source.exists THEN "Failed" ELSE "Cleaning"
    /\ UNCHANGED <<env, zip_info, at_start, other, archives, parent_archives, mod_dest, zip_entries,
                   returned, phase, dest_dir, source, exported, version,
                   src_ok, exp_ok, arch_ok, mutated, prev, nruns, archive_name, info_before>>

Validate ==
    /\ pc = "Validating"
    /\ pc' = IF ~DirExists(dest_dir) THEN "Failed"
             ELSE IF ~source.exists THEN "Failed"
             ELSE "Cleaning"
    /\ UNCHANGED <<env, zip_info, at_start, other, archives, parent_archives, mod_dest, zip_entries, returned, phase, dest_dir, source, exported, version,
                   src_ok, exp_ok, arch_ok, mutated, prev, nruns, archive_name, info_before>>

\* a cleaning step that leaves the existing mod directory alone
CleanSkipped ==
    /\ pc = "Cleaning"
    /\ mod_dest' = DirPath(dest_dir) \o <<mod_name>>
    /\ pc' = "Copying"
    /\ UNCHANGED <<env, zip_info, at_start, other, archives, parent_archives, zip_entries, returned, phase, dest_dir, source, exported, version,
                   src_ok, exp_ok, arch_ok, mutated, prev, nruns, archive_name, info_before>>

\* shutil.rmtree(mod_dest): removes everything, or raises having removed some
\* of it, children before their parents.  With the destination being the
\* directory that holds the source, mod_dest is mod_source_dir itself.
Clean ==
    /\ pc = "Cleaning"
    /\ mod_dest' = DirPath(dest_dir) \o <<mod_name>>
    /\ \/ /\ ~exported.exists
          /\ exported' = exported
          /\ pc' = "Copying"
       \/ /\ exported.exists
          /\ exported' = NoTree
          /\ pc' = "Copying"
       \/ /\ exported.exists
          /\ \E left \in Partial(exported.entries), info \in {exported.info, NoFile} :
                 exported' = [exists |-> TRUE, entries |-> left, info |-> info]
          /\ pc' = "Raised"
    /\ source' = IF mod_dest' = SrcDir THEN exported' ELSE source
    /\ UNCHANGED <<env, zip_info, at_start, other, archives, parent_archives, zip_entries, returned, phase, dest_dir, version,
                   src_ok, exp_ok, arch_ok, prev, nruns, archive_name, info_before>>
    /\ Mutation

\* dst after an rsync that exited non-zero
AfterFailedRsync(src, dst) ==
    {dst} \cup
    { Merge(dst, P, info) :
        P \in Partial(RsyncEntries(src.entries)), info \in {NoFile, RsyncInfo(src.info)} }

\* dst after a fallback copy that raised
AfterFailedFallback(src, dst) ==
    {dst} \cup
    { Merge(dst, P, info) :
        P \in Partial(FallbackEntries(src.entries)), info \in {NoFile, FallbackInfo(src.info)} }

\* the fallback strategy run to its end
FallbackCopy(src, dst) == Merge(dst, FallbackEntries(src.entries), FallbackInfo(src.info))

\* the bulk strategy exiting zero
RsyncCopy(src, dst) == Merge(dst, RsyncEntries(src.entries), RsyncInfo(src.info))

\* copy_tree(src, dst) under export's try: the trees dst can be afterwards,
\* with whether copy_tree raised
copy_tree(src, dst) ==
    LET starts == {dst} \cup AfterFailedRsync(src, dst) IN
    { [dst |-> RsyncCopy(src, dst), raised |-> FALSE] }
    \cup { [dst |-> FallbackCopy(src, d), raised |-> FALSE] : d \in starts }
    \cup { [dst |-> t, raised |-> TRUE] : t \in UNION {AfterFailedFallback(src, d) : d \in starts} }

----------------------------------------------------------------------------
(* Tree Copier called on its own: copy_tree(src, dst) where dst may lie      *)
(* inside src.  source is the tree at src, whatever lies below dst included; *)
(* exported is the tree at dst; mod_dest is the path of dst.                 *)

IsInside(dst_path) ==
    Len(dst_path) > Len(SrcDir) /\ SubSeq(dst_path, 1, Len(SrcDir)) = SrcDir

\* the entries of src that are neither dst nor below it
OutsideDst(src, dst_path) ==
    IF IsInside(dst_path)
    THEN {e \in src.entries : ~StartsWith(e, relative_to(dst_path, SrcDir))}
    ELSE src.entries

\* writes that land beside dst instead of below it
PlaceBesideDst(src, dst_path, t) ==
    IF ~IsInside(dst_path) \/ ~t.exists THEN src
    ELSE LET at == relative_to(dst_path, SrcDir) IN
         [src EXCEPT !.entries =
              @ \cup Ancestors(at) \cup {at} \cup {Parent(at) \o e : e \in t.entries}]

\* src once the tree at dst is t: dst.mkdir(parents=True) and the writes below dst
PlaceUnder(src, dst_path, t) ==
    IF ~IsInside(dst_path) \/ ~t.exists THEN src
    ELSE LET at == relative_to(dst_path, SrcDir) IN
         [src EXCEPT !.entries =
              OutsideDst(src, dst_path) \cup Ancestors(at) \cup {at}
                  \cup {at \o e : e \in t.entries}
                  \cup (IF t.info.kind # "absent" THEN {at \o <<InfoName>>} ELSE {})]

\* rsync creates dst, and no directory above it
ParentExists(src, dst_path) ==
    \/ ~IsInside(dst_path)
    \/ Len(relative_to(dst_path, SrcDir)) = 1
    \/ Parent(relative_to(dst_path, SrcDir)) \in src.entries

\* whether dst / relative is a path the file system can hold
Fits(dst_path, e) == Len(dst_path) - Len(SrcDir) + Len(e) <= MaxPathLen

\* the loop over src.rglob('*'): the walk is lazy, so with dst inside src it
\* meets what it has just written and copies that again, one level deeper,
\* until nothing new is met or a path cannot be created
RECURSIVE FallbackWalk(_, _, _)
FallbackWalk(src, dst, dst_path) ==
    LET all  == FallbackCopy(src, dst)
        made == IF IsInside(dst_path)
                THEN [all EXCEPT !.entries = {e \in @ : Fits(dst_path, e)}]
                ELSE all
        seen == PlaceUnder(src, dst_path, made)
    IN  IF made # all THEN [src |-> seen, dst |-> made, raised |-> TRUE]
        ELSE IF seen = src THEN [src |-> seen, dst |-> made, raised |-> FALSE]
        ELSE FallbackWalk(seen, made, dst_path)

notCopyVars == <<env, zip_info, at_start, other, archives, parent_archives, mod_dest, zip_entries, returned, dest_dir,
                 version, src_ok, exp_ok, arch_ok, archive_name, info_before, mutated,
                 prev, nruns>>

\* shutil.which('rsync') finds nothing
RsyncAbsent ==
    /\ pc = "CopyStart"
    /\ pc' = "FallingBack"
    /\ phase' = "no_rsync"
    /\ UNCHANGED <<source, exported, notCopyVars>>

\* rsync exits zero: copy_tree returns True
RsyncExitsZero ==
    /\ pc = "CopyStart"
    /\ ParentExists(source, mod_dest)
    /\ exported' = RsyncCopy(source, exported)
    /\ source' = PlaceUnder(source, mod_dest, exported')
    /\ pc' = "ReturnedByRsync"
    /\ phase' = "rsync_zero"
    /\ UNCHANGED notCopyVars

\* a copy_tree that returns whatever rsync's exit code is
RsyncNonZeroReturns ==
    /\ pc = "CopyStart"
    /\ exported' \in (IF ParentExists(source, mod_dest)
                       THEN AfterFailedRsync(source, exported) ELSE {exported})
    /\ source' = PlaceUnder(source, mod_dest, exported')
    /\ pc' = "ReturnedByRsync"
    /\ phase' = "rsync_nonzero"
    /\ UNCHANGED notCopyVars

\* rsync exits non-zero: CalledProcessError is caught and passed over
RsyncExitsNonZero ==
    /\ pc = "CopyStart"
    /\ exported' \in (IF ParentExists(source, mod_dest)
                       THEN AfterFailedRsync(source, exported) ELSE {exported})
    /\ source' = PlaceUnder(source, mod_dest, exported')
    /\ pc' = "FallingBack"
    /\ phase' = "rsync_nonzero"
    /\ UNCHANGED notCopyVars

\* the fallback strategy run until the walk ends or a path cannot be created
FallbackRuns ==
    /\ pc = "FallingBack"
    /\ LET r == FallbackWalk(source, exported, mod_dest)
       IN  /\ exported' = r.dst
           /\ source' = r.src
           /\ pc' = IF r.raised THEN "CopyRaised" ELSE "ReturnedByFallback"
    /\ UNCHANGED <<phase, notCopyVars>>

\* the fallback strategy stopped by a mkdir or copy2 that raises
FallbackRaises ==
    /\ pc = "FallingBack"
    /\ exported' \in AfterFailedFallback(source, exported)
    /\ source' = PlaceUnder(source, mod_dest, exported')
    /\ pc' = "CopyRaised"
    /\ UNCHANGED <<phase, notCopyVars>>

\* a copy that goes on to the archive without the verification
CopyThenArchive ==
    /\ pc = "Copying"
    /\ \E r \in copy_tree(source, exported) :
           /\ exported' = r.dst
           /\ pc' = IF r.raised THEN "Failed" ELSE "Archiving"
    /\ UNCHANGED <<env, zip_info, at_start, other, archives, parent_archives, mod_dest, zip_entries, returned, phase, dest_dir, source, version,
                   src_ok, exp_ok, arch_ok, prev, nruns, archive_name, info_before>>
    /\ Mutation

Copy ==
    /\ pc = "Copying"
    /\ \E r \in copy_tree(source, exported) :
           /\ exported' = r.dst
           /\ pc' = IF r.raised THEN "Failed" ELSE "Verifying"
    /\ source' = IF mod_dest = SrcDir THEN exported' ELSE source
    /\ UNCHANGED <<env, zip_info, at_start, other, archives, parent_archives, mod_dest, zip_entries, returned, phase, dest_dir, version,
                   src_ok, exp_ok, arch_ok, prev, nruns, archive_name, info_before>>
    /\ Mutation

\* a verification that looks for the directory only
VerifyDirectoryOnly ==
    /\ pc = "Verifying"
    /\ pc' = IF exported.exists THEN "Archiving" ELSE "Failed"
    /\ UNCHANGED <<env, zip_info, at_start, other, archives, parent_archives, mod_dest, zip_entries,
                   returned, phase, dest_dir, source, exported, version,
                   src_ok, exp_ok, arch_ok, mutated, prev, nruns, archive_name, info_before>>

Verify ==
    /\ pc = "Verifying"
    /\ pc' = IF exported.exists /\ exported.info.kind # "absent" THEN "Archiving" ELSE "Failed"
    /\ UNCHANGED <<env, zip_info, at_start, other, archives, parent_archives, mod_dest, zip_entries, returned, phase, dest_dir, source, exported, version,
                   src_ok, exp_ok, arch_ok, mutated, prev, nruns, archive_name, info_before>>

\* create_archive: version = self.get_next_version(dest_parent), where
\* dest_parent = mod_dest.parent is dest_dir
AllocateVersion ==
    /\ pc = "Archiving"
    /\ \E existing_zips \in Listings(Glob(Listing(dest_parent))) :
           version' = get_next_version(existing_zips)
    /\ pc' = "UpdatingSource"
    /\ UNCHANGED <<env, zip_info, at_start, other, archives, parent_archives, mod_dest, zip_entries, returned, phase, dest_dir, source, exported,
                   src_ok, exp_ok, arch_ok, mutated, prev, nruns, archive_name, info_before>>

\* a source-manifest update whose failure propagates out of create_archive
UpdateSourceManifestRaises ==
    /\ pc = "UpdatingSource"
    /\ \E outcome \in WriteOutcomes :
           LET r == update_info_version(source.info, version, outcome)
           IN  /\ source' = [source EXCEPT !.info = r.file]
               /\ src_ok' = r.ok
               /\ info_before' = source.info
               /\ pc' = IF r.ok THEN "UpdatingExported" ELSE "Raised"
    /\ UNCHANGED <<env, zip_info, at_start, other, archives, parent_archives, mod_dest, zip_entries, returned, phase, dest_dir, exported, version,
                   exp_ok, arch_ok, prev, nruns, archive_name>>
    /\ Mutation

UpdateSourceManifest ==
    /\ pc = "UpdatingSource"
    /\ \E outcome \in WriteOutcomes :
           LET r == update_info_version(source.info, version, outcome)
           IN  /\ source' = [source EXCEPT !.info = r.file]
               /\ src_ok' = r.ok
               /\ info_before' = source.info
    /\ pc' = "UpdatingExported"
    /\ UNCHANGED <<env, zip_info, at_start, other, archives, parent_archives, mod_dest, zip_entries, returned, phase, dest_dir, exported, version,
                   exp_ok, arch_ok, prev, nruns, archive_name>>
    /\ Mutation

\* an exported-manifest update that reports its result while the file is
\* still to be written
UpdateExportedDeferred ==
    /\ pc = "UpdatingExported"
    /\ \E outcome \in WriteOutcomes :
           exp_ok' = update_exported_info_version(exported.info, version, outcome).ok
    /\ pc' = "WritingArchive"
    /\ UNCHANGED <<env, zip_info, at_start, other, archives, parent_archives, mod_dest, zip_entries,
                   returned, phase, dest_dir, source, exported, version,
                   src_ok, arch_ok, prev, nruns, archive_name, info_before>>
    /\ Mutation

UpdateExportedManifest ==
    /\ pc = "UpdatingExported"
    /\ \E outcome \in WriteOutcomes :
           LET r == update_exported_info_version(exported.info, version, outcome)
           IN  /\ exported' = [exported EXCEPT !.info = r.file]
               /\ exp_ok' = r.ok
    /\ pc' = "WritingArchive"
    /\ UNCHANGED <<env, zip_info, at_start, other, archives, parent_archives, mod_dest, zip_entries, returned, phase, dest_dir, source, version,
                   src_ok, arch_ok, prev, nruns, archive_name, info_before>>
    /\ Mutation

\* what the archive holds after the zipfile block: every file when it ended
\* well, the files written before the failure when a write raised
ArchiveWritten(outcome) ==
    IF outcome = "ok" THEN {ZipContent(exported, mod_dest)}
    ELSE IF outcome = "open_fails" THEN {{}}
    ELSE (SUBSET ZipContent(exported, mod_dest)) \ {ZipContent(exported, mod_dest)}

\* zf.write(file_path, arcname) for info.json stores the file as it is on disk
\* at that moment
StoredInfo(entries, tree) ==
    IF <<mod_name, InfoName>> \in entries THEN tree.info ELSE NoFile

\* an export that returns create_archive's result
WriteArchiveDecides ==
    /\ pc = "WritingArchive"
    /\ archive_name' = ArchiveName(version)
    /\ \E outcome \in WriteOutcomes :
           /\ archives' = IF outcome # "open_fails" /\ dest_parent = ModsDir
                          THEN archives \cup {archive_name'} ELSE archives
           /\ parent_archives' = IF outcome # "open_fails" /\ dest_parent = Parent(ModsDir)
                                 THEN parent_archives \cup {archive_name'} ELSE parent_archives
           /\ zip_entries' \in ArchiveWritten(outcome)
           /\ zip_info' = StoredInfo(zip_entries', exported)
           /\ arch_ok' = (outcome = "ok")
    /\ pc' = IF arch_ok' THEN "Done" ELSE "Failed"
    /\ UNCHANGED <<env, at_start, other, mod_dest, returned, phase, dest_dir, source, exported, version,
                   src_ok, exp_ok, prev, nruns, info_before>>
    /\ Mutation

\* the zipfile block: the archive is written, or ZipFile() raises and no file
\* appears, or a write raises and leaves the file it had opened
WriteArchive ==
    /\ pc = "WritingArchive"
    /\ archive_name' = ArchiveName(version)
    /\ \E outcome \in WriteOutcomes :
           /\ archives' = IF outcome # "open_fails" /\ dest_parent = ModsDir
                          THEN archives \cup {archive_name'} ELSE archives
           /\ parent_archives' = IF outcome # "open_fails" /\ dest_parent = Parent(ModsDir)
                                 THEN parent_archives \cup {archive_name'} ELSE parent_archives
           /\ zip_entries' \in ArchiveWritten(outcome)
           /\ zip_info' = StoredInfo(zip_entries', exported)
           /\ arch_ok' = (outcome = "ok")
    /\ pc' = "Done"
    /\ UNCHANGED <<env, at_start, other, mod_dest, returned, phase, dest_dir, source, exported, version,
                   src_ok, exp_ok, prev, nruns, info_before>>
    /\ Mutation

\* sys.exit(0 if success else 1); an exception that export lets through
\* ends the process with exit code 1
ExitCode == IF pc = "Done" THEN 0 ELSE 1

Exit ==
    /\ pc \in {"Done", "Failed", "Raised"}
    /\ prev' = [done |-> pc = "Done", archived |-> arch_ok, version |-> version,
                copied |-> exported.entries]
    /\ nruns' = nruns + 1
    /\ pc' = "Idle"
    /\ UNCHANGED <<env, zip_info, at_start, other, archives, parent_archives, mod_dest, zip_entries, returned, phase, dest_dir, source, exported, version,
                   src_ok, exp_ok, arch_ok, mutated, archive_name, info_before>>

----------------------------------------------------------------------------
(* The source trees and manifests export is run on *)

SourceEntries == { <<CLua>>, <<TestsDir>>, <<TestsDir, TLua>>, <<DocsLua>> }

SourceTrees == Partial(SourceEntries)

NameItem == [key |-> "name", type |-> "string", text |-> mod_name]
VersionItem == [key |-> "version", type |-> "string",
                text |-> <<"1", ".", "1", ".", "0", "0", "0", "1">>]
DepsItem == [key |-> "dependencies", type |-> "array", text |-> <<"b", "a", "s", "e">>]
OldDepsItem == [key |-> "dependencies", type |-> "string", text |-> <<"o", "l", "d">>]

Manifests ==
    { [kind |-> "object", indent |-> "2", pairs |-> <<NameItem, VersionItem, DepsItem>>],
      [kind |-> "object", indent |-> "2", pairs |-> <<OldDepsItem, VersionItem, DepsItem>>],
      [kind |-> "object", indent |-> "2", pairs |-> <<NameItem, DepsItem>>],
      [kind |-> "array", indent |-> "2", pairs |-> <<>>],
      Truncated,
      NoFile }

InitialArchives ==
    { ArchiveName(<<"1", ".", "1", ".", "0", "0", "0", "3">>),
      ArchiveName(<<"1", ".", "1", ".", "5">>) }

\* what lies in the directory above the destination
ParentArchives == { ArchiveName(<<"1", ".", "1", ".", "7">>) }

\* the developer edits the source tree between two exports
EditSource ==
    /\ pc = "Idle"
    /\ source.exists
    /\ \E t \in SourceTrees :
           /\ t # source.entries
           /\ source' = [source EXCEPT !.entries = t]
    /\ UNCHANGED <<env, zip_info, at_start, other, archives, parent_archives, mod_dest, zip_entries, returned, phase, pc, dest_dir, exported, version,
                   src_ok, exp_ok, arch_ok, mutated, prev, nruns, archive_name, info_before>>

Init ==
    /\ archives \in SUBSET InitialArchives
    /\ parent_archives = ParentArchives
    /\ mod_dest = <<>>
    /\ zip_entries = {}
    /\ returned = <<>>
    /\ phase = "export"
    /\ pc = "Idle"
    /\ dest_dir = "none"
    /\ source \in {NoTree} \cup
                  { [exists |-> TRUE, entries |-> t, info |-> m] :
                        t \in SourceTrees, m \in Manifests }
    /\ exported = NoTree
    /\ version = <<>>
    /\ src_ok = FALSE /\ exp_ok = FALSE /\ arch_ok = FALSE
    /\ archive_name = <<>>
    /\ info_before = NoFile
    /\ mutated = FALSE
    /\ prev = NoRun
    /\ nruns = 0
    /\ zip_info = NoFile
    /\ other = NoOther
    /\ at_start = Snapshot
    /\ env = AnyEnv

Next ==
    \/ StartExport
    \/ ResolveDestination
    \/ Validate
    \/ Clean
    \/ Copy
    \/ Verify
    \/ AllocateVersion
    \/ UpdateSourceManifest
    \/ UpdateExportedManifest
    \/ WriteArchive
    \/ Exit
    \/ EditSource

Spec == Init /\ [][Next]_vars

----------------------------------------------------------------------------
(* Harness of create_archive: it is called on an exported directory of any   *)
(* name, as a caller other than export may do.                               *)

OldName == <<"o", "l", "d">>

ArchiveInit ==
    /\ archives \in SUBSET InitialArchives
    /\ parent_archives = ParentArchives
    /\ mod_dest \in {ModsDir \o <<mod_name>>, ModsDir \o <<OldName>>}
    /\ zip_entries = {}
    /\ returned = <<>>
    /\ phase = "export"
    /\ pc = "Archiving"
    /\ dest_dir = "mods"
    /\ source \in {[exists |-> TRUE, entries |-> {}, info |-> m] : m \in Manifests}
    /\ exported \in {[exists |-> TRUE, entries |-> t, info |-> m] :
                        t \in SourceTrees, m \in Manifests}
    /\ version = <<>>
    /\ src_ok = FALSE /\ exp_ok = FALSE /\ arch_ok = FALSE
    /\ archive_name = <<>>
    /\ info_before = NoFile
    /\ mutated = FALSE
    /\ prev = NoRun
    /\ nruns = 0
    /\ zip_info = NoFile
    /\ other = NoOther
    /\ at_start = Snapshot
    /\ env = AnyEnv

ArchiveNext ==
    \/ AllocateVersion
    \/ UpdateSourceManifest
    \/ UpdateExportedManifest
    \/ WriteArchive

SpecArchive == ArchiveInit /\ [][ArchiveNext]_vars

----------------------------------------------------------------------------
(* Harness of copy_tree: the trees and destinations it is called on *)

CopyEntries ==
    { <<CLua>>, <<DocsLua>>, <<Lib>>, <<Lib, TestsDir>>, <<Lib, TestsDir, XLua>>,
      <<Out>>, <<Factorio>>, <<Factorio, Mods>> }

CopyTrees == Partial(CopyEntries)

\* a destination outside src, one below src/factorio/mods, one below src/out
CopyDestinations ==
    { ModsDir \o <<mod_name>>,
      SrcDir \o <<Factorio, Mods, mod_name>>,
      SrcDir \o <<Out, mod_name>> }

CopyInit ==
    /\ archives = {}
    /\ parent_archives = {}
    /\ mod_dest \in CopyDestinations
    /\ zip_entries = {}
    /\ returned = <<>>
    /\ phase = "copy"
    /\ pc = "CopyStart"
    /\ dest_dir = "none"
    /\ source \in {[exists |-> TRUE, entries |-> t, info |-> m] :
                      t \in CopyTrees,
                      m \in {NoFile, [kind |-> "object", indent |-> "2",
                                      pairs |-> <<NameItem, VersionItem>>]}}
    /\ exported = NoTree
    /\ version = <<>>
    /\ src_ok = FALSE /\ exp_ok = FALSE /\ arch_ok = FALSE
    /\ archive_name = <<>>
    /\ info_before = NoFile
    /\ mutated = FALSE
    /\ prev = NoRun
    /\ nruns = 0
    /\ zip_info = NoFile
    /\ other = NoOther
    /\ at_start = Snapshot
    /\ env = AnyEnv

CopyNext ==
    \/ RsyncAbsent
    \/ RsyncExitsZero
    \/ RsyncExitsNonZero
    \/ FallbackRuns
    \/ FallbackRaises

SpecCopy == CopyInit /\ [][CopyNext]_vars

----------------------------------------------------------------------------
(* Harness of should_exclude: calls in succession, on the pattern list in    *)
(* the configured order and in other orders.                                 *)

Reverse(seq) == [i \in 1..Len(seq) |-> seq[Len(seq) + 1 - i]]

Rotate(seq, k) == SubSeq(seq, k + 1, Len(seq)) \o SubSeq(seq, 1, k)

PatternOrders ==
    [configured |-> exclude_patterns,
     reversed   |-> Reverse(exclude_patterns),
     rotated    |-> Rotate(exclude_patterns, 9),
     halved     |-> Rotate(exclude_patterns, 11)]

APyc == <<"a", ".", "p", "y", "c">>
GitIgnore == <<".", "g", "i", "t", "i", "g", "n", "o", "r", "e">>
TestsOld == <<"t", "e", "s", "t", "s", "_", "o", "l", "d">>

FilterPaths ==
    { <<CLua>>, <<DocsLua>>, <<TestsDir>>, <<TestsDir, TLua>>, <<TestsOld, TLua>>,
      <<Lib>>, <<Lib, TestsDir>>, <<Lib, TestsDir, XLua>>, <<Lib, APyc>>, <<APyc>>,
      <<GitIgnore>>, <<Lib, DocsLua>>, <<InfoName>>,
      <<ArchiveName(<<"1", ".", "1", ".", "1">>)>> }

FilterInit ==
    /\ archives = {}
    /\ parent_archives = {}
    /\ mod_dest = <<>>
    /\ zip_entries = {}
    /\ returned = <<>>
    /\ phase = "filter"
    /\ pc = "Idle"
    /\ dest_dir = "none"
    /\ source = NoTree
    /\ exported = NoTree
    /\ version = <<>>
    /\ src_ok = FALSE /\ exp_ok = FALSE /\ arch_ok = FALSE
    /\ archive_name = <<>>
    /\ info_before = NoFile
    /\ mutated = FALSE
    /\ prev = NoRun
    /\ nruns = 0
    /\ zip_info = NoFile
    /\ other = NoOther
    /\ at_start = Snapshot
    /\ env = AnyEnv

CallFilter ==
    /\ phase = "filter"
    /\ Len(returned) < MaxFilterCalls
    /\ \E path \in FilterPaths, order \in DOMAIN PatternOrders :
           returned' = Append(returned,
                              [path |-> path, order |-> order,
                               result |-> ExcludedBy(PatternOrders[order], path)])
    /\ UNCHANGED <<archives, phase, exportVars>>

SpecFilter == FilterInit /\ [][CallFilter]_vars

----------------------------------------------------------------------------
(* Harness of the destination resolution: export runs in each environment    *)

ResolveInit ==
    /\ archives = {}
    /\ parent_archives = ParentArchives
    /\ mod_dest = <<>>
    /\ zip_entries = {}
    /\ returned = <<>>
    /\ phase = "export"
    /\ pc = "Idle"
    /\ dest_dir = "none"
    /\ source \in {NoTree,
                   [exists |-> TRUE, entries |-> {<<CLua>>, <<TestsDir>>},
                    info |-> [kind |-> "object", indent |-> "2",
                              pairs |-> <<NameItem, VersionItem>>]]}
    /\ exported \in {NoTree, [exists |-> TRUE, entries |-> {<<TLua>>}, info |-> NoFile]}
    /\ version = <<>>
    /\ src_ok = FALSE /\ exp_ok = FALSE /\ arch_ok = FALSE
    /\ archive_name = <<>>
    /\ info_before = NoFile
    /\ mutated = FALSE
    /\ prev = NoRun
    /\ nruns = 0
    /\ zip_info = NoFile
    /\ other = NoOther
    /\ at_start = Snapshot
    /\ env \in Environments

ResolveNext ==
    \/ StartExport
    \/ ResolveDestination
    \/ Validate
    \/ Clean
    \/ Copy
    \/ Verify
    \/ AllocateVersion
    \/ UpdateSourceManifest
    \/ UpdateExportedManifest
    \/ WriteArchive
    \/ Exit

SpecResolve == ResolveInit /\ [][ResolveNext]_vars

\* the statements of a started export: synchronous, blocking code, in which
\* every external call returns or raises
RunStep ==
    \/ ResolveDestination
    \/ Validate
    \/ Clean
    \/ Copy
    \/ Verify
    \/ AllocateVersion
    \/ UpdateSourceManifest
    \/ UpdateExportedManifest
    \/ WriteArchive

\* one export process, just started, in each environment
RunInit ==
    /\ archives = {}
    /\ parent_archives = ParentArchives
    /\ mod_dest = <<>>
    /\ zip_entries = {}
    /\ returned = <<>>
    /\ phase = "export"
    /\ pc = "ResolvingDestination"
    /\ dest_dir = "none"
    /\ source \in {NoTree} \cup
                  {[exists |-> TRUE, entries |-> {<<CLua>>, <<TestsDir>>}, info |-> m] :
                      m \in {NoFile, [kind |-> "object", indent |-> "2",
                                      pairs |-> <<NameItem, VersionItem>>]}}
    /\ exported \in {NoTree, [exists |-> TRUE, entries |-> {<<TLua>>}, info |-> NoFile]}
    /\ version = <<>>
    /\ src_ok = FALSE /\ exp_ok = FALSE /\ arch_ok = FALSE
    /\ archive_name = <<>>
    /\ info_before = NoFile
    /\ mutated = FALSE
    /\ prev = NoRun
    /\ nruns = 0
    /\ zip_info = NoFile
    /\ other = NoOther
    /\ at_start = Snapshot
    /\ env \in Environments

RunNext == RunStep \/ Exit

\* a started export keeps executing until it returns or raises
SpecTerminates == RunInit /\ [][RunNext]_vars /\ WF_vars(RunStep)

----------------------------------------------------------------------------
(* Harness of an export whose destination has been resolved: the mods        *)
(* directory, or the directory that holds the source checkout, in which      *)
(* dest_dir / mod_name is mod_source_dir                                     *)

BesideInit ==
    /\ archives \in SUBSET InitialArchives
    /\ parent_archives = ParentArchives
    /\ mod_dest = <<>>
    /\ zip_entries = {}
    /\ returned = <<>>
    /\ phase = "export"
    /\ pc = "Validating"
    /\ dest_dir \in {"mods", "dev"}
    /\ source \in {[exists |-> TRUE, entries |-> t, info |-> m] :
                      t \in SUBSET {<<CLua>>, <<DocsLua>>}, m \in Manifests}
    /\ exported \in IF dest_dir = "dev" THEN {source}
                    ELSE {NoTree, [exists |-> TRUE, entries |-> {<<CLua>>},
                                   info |-> [kind |-> "object", indent |-> "2",
                                             pairs |-> <<NameItem, VersionItem>>]]}
    /\ version = <<>>
    /\ src_ok = FALSE /\ exp_ok = FALSE /\ arch_ok = FALSE
    /\ archive_name = <<>>
    /\ info_before = NoFile
    /\ mutated = FALSE
    /\ prev = NoRun
    /\ nruns = 0
    /\ zip_info = NoFile
    /\ other = NoOther
    /\ at_start = Snapshot
    /\ env = AnyEnv

BesideNext ==
    \/ Validate
    \/ Clean
    \/ Copy
    \/ Verify
    \/ AllocateVersion
    \/ UpdateSourceManifest
    \/ UpdateExportedManifest
    \/ WriteArchive
    \/ Exit

SpecBeside == BesideInit /\ [][BesideNext]_vars

----------------------------------------------------------------------------
(* Two export processes on the same destination.  The first is the process   *)
(* of the actions above; the second runs the same code, its position and its *)
(* locals kept in other: pc, version, copied (the items its copy loop has    *)
(* written so far) and the history flag cut (something it had written was no *)
(* longer there at one of its later steps).  Its copy is the fallback loop,   *)
(* taken one item at a time, and its file operations succeed.                *)

localVars == <<returned, phase, pc, dest_dir, version, src_ok, exp_ok, arch_ok, archive_name,
               info_before, mutated, prev, nruns, parent_archives, mod_dest, zip_entries,
               env, zip_info, at_start>>

\* the items the copy loop of the second process goes through
ToCopy(src) ==
    FallbackEntries(src.entries)
        \cup (IF FallbackInfo(src.info).kind # "absent" THEN {<<InfoName>>} ELSE {})

\* the entries of a tree, its info.json included
Present(tree) ==
    tree.entries \cup (IF tree.info.kind # "absent" THEN {<<InfoName>>} ELSE {})

\* something the second process had copied is gone
Undone == ~(other.copied \subseteq Present(exported))

\* the second process: if mod_dest.exists(): shutil.rmtree(mod_dest)
OtherClean ==
    /\ other.pc = "Cleaning"
    /\ exported' = NoTree
    /\ other' = [other EXCEPT !.pc = "Copying"]
    /\ UNCHANGED <<localVars, archives, source>>

\* the second process: copy_tree begins, dst.mkdir(parents=True, exist_ok=True)
OtherCopyStart ==
    /\ other.pc = "Copying"
    /\ exported' = Merge(exported, {}, NoFile)
    /\ other' = [other EXCEPT !.pc = "CopyingItems"]
    /\ UNCHANGED <<localVars, archives, source>>

\* the second process: one iteration of the copy loop, which creates the
\* parents of what it writes
OtherCopyItem ==
    /\ other.pc = "CopyingItems"
    /\ \E item \in ToCopy(source) \ other.copied :
           /\ exported' = IF item = <<InfoName>>
                           THEN Merge(exported, {}, FallbackInfo(source.info))
                           ELSE Merge(exported, {item} \cup Ancestors(item), NoFile)
           /\ other' = [other EXCEPT !.copied = @ \cup {item}, !.cut = @ \/ Undone]
    /\ UNCHANGED <<localVars, archives, source>>

\* the second process: the copy loop ends and copy_tree returns
OtherCopyEnd ==
    /\ other.pc = "CopyingItems"
    /\ ToCopy(source) \subseteq other.copied
    /\ other' = [other EXCEPT !.pc = "Verifying", !.cut = @ \/ Undone]
    /\ UNCHANGED <<localVars, archives, source, exported>>

\* the second process: the verification
OtherVerify ==
    /\ other.pc = "Verifying"
    /\ other' = [other EXCEPT
                    !.pc = IF exported.exists /\ exported.info.kind # "absent"
                           THEN "Archiving" ELSE "Failed",
                    !.cut = @ \/ Undone]
    /\ UNCHANGED <<localVars, archives, source, exported>>

\* an allocation that counts the archive the concurrent run is about to write
OtherAllocateAware ==
    /\ other.pc = "Archiving"
    /\ \E existing_zips \in
             Listings(Glob(archives \cup (IF version # <<>> THEN {ArchiveName(version)} ELSE {}))) :
           other' = [other EXCEPT !.pc = "UpdatingSource",
                                  !.version = get_next_version(existing_zips)]
    /\ UNCHANGED <<localVars, archives, source, exported>>

\* the second process: version = self.get_next_version(dest_parent)
OtherAllocate ==
    /\ other.pc = "Archiving"
    /\ \E existing_zips \in Listings(Glob(archives)) :
           other' = [other EXCEPT !.pc = "UpdatingSource",
                                  !.version = get_next_version(existing_zips)]
    /\ UNCHANGED <<localVars, archives, source, exported>>

\* the second process: self.update_info_version(version)
OtherUpdateSource ==
    /\ other.pc = "UpdatingSource"
    /\ source' = [source EXCEPT !.info = update_info_version(@, other.version, "ok").file]
    /\ other' = [other EXCEPT !.pc = "UpdatingExported"]
    /\ UNCHANGED <<localVars, archives, exported>>

\* the second process: self.update_exported_info_version(mod_dest, version)
OtherUpdateExported ==
    /\ other.pc = "UpdatingExported"
    /\ exported' = [exported EXCEPT
                       !.info = update_exported_info_version(@, other.version, "ok").file]
    /\ other' = [other EXCEPT !.pc = "WritingArchive", !.cut = @ \/ Undone]
    /\ UNCHANGED <<localVars, archives, source>>

\* the second process: the zipfile block
OtherWrite ==
    /\ other.pc = "WritingArchive"
    /\ archives' = archives \cup {ArchiveName(other.version)}
    /\ other' = [other EXCEPT !.pc = "Done", !.cut = @ \/ Undone]
    /\ UNCHANGED <<localVars, source, exported>>

RaceInit ==
    /\ archives \in {{}, InitialArchives}
    /\ parent_archives = ParentArchives
    /\ mod_dest = <<>>
    /\ zip_entries = {}
    /\ returned = <<>>
    /\ phase = "export"
    /\ pc = "Cleaning"
    /\ dest_dir = "mods"
    /\ source = [exists |-> TRUE, entries |-> {<<CLua>>},
                 info |-> [kind |-> "object", indent |-> "2",
                           pairs |-> <<NameItem, VersionItem>>]]
    /\ exported \in {NoTree, [exists |-> TRUE, entries |-> {<<CLua>>}, info |-> source.info]}
    /\ version = <<>>
    /\ src_ok = FALSE /\ exp_ok = FALSE /\ arch_ok = FALSE
    /\ archive_name = <<>>
    /\ info_before = NoFile
    /\ mutated = FALSE
    /\ prev = NoRun
    /\ nruns = 0
    /\ zip_info = NoFile
    /\ other = [NoOther EXCEPT !.pc = "Cleaning"]
    /\ at_start = Snapshot
    /\ env = AnyEnv

RaceNext ==
    \/ Clean
    \/ Copy
    \/ Verify
    \/ AllocateVersion
    \/ UpdateSourceManifest
    \/ UpdateExportedManifest
    \/ WriteArchive
    \/ OtherClean
    \/ OtherCopyStart
    \/ OtherCopyItem
    \/ OtherCopyEnd
    \/ OtherVerify
    \/ OtherAllocate
    \/ OtherUpdateSource
    \/ OtherUpdateExported
    \/ OtherWrite

SpecRace == RaceInit /\ [][RaceNext]_vars

----------------------------------------------------------------------------
(* Directory contents the allocator is exercised on *)

PatchArchives ==
    { ArchiveName(<<"1", ".", "1", ".">> \o p) :
        p \in { <<"0">>, <<"1">>, <<"3">>, <<"5">>, <<"9", "9">>,
                <<"0", "0", "0", "1">>, <<"0", "0", "0", "3">>, <<"0", "0", "0", "5">> } }

\* names the glob yields although they are no <mod_name>_1.1.<patch>.zip
ForeignMatching ==
    { ArchiveName(<<"1", ".", "1", ".">> \o p) :
        p \in { <<"a">>, <<"2", ".", "5">>, <<>>, <<"-", "2">>, <<"_", "7">>,
                mod_name \o <<"_", "7">> } }

\* names the glob does not yield
NonMatching ==
    { ArchiveName(<<"1", ".", "0", ".", "0">>),
      ArchiveName(<<"2", ".", "1", ".", "4">>),
      ArchiveName(<<"1", ".", "1">>),
      <<"X", "_", "1", ".", "1", ".", "9">> \o ZipSuffix,
      mod_name \o <<"_", "1", ".", "1", ".", "8", ".", "t", "g", "z">> }

Pool == PatchArchives \cup ForeignMatching \cup NonMatching

----------------------------------------------------------------------------
(* Harness of the allocator: the environment fills the directory, then       *)
(* get_next_version is called on whatever listing order the glob yields.     *)

AllocInit ==
    /\ archives = {}
    /\ parent_archives = {}
    /\ mod_dest = <<>>
    /\ zip_entries = {}
    /\ returned = <<>>
    /\ phase = "setup"
    /\ pc = "Idle"
    /\ dest_dir = "none"
    /\ source = NoTree
    /\ exported = NoTree
    /\ version = <<>>
    /\ src_ok = FALSE /\ exp_ok = FALSE /\ arch_ok = FALSE
    /\ archive_name = <<>>
    /\ info_before = NoFile
    /\ mutated = FALSE
    /\ prev = NoRun
    /\ nruns = 0
    /\ zip_info = NoFile
    /\ other = NoOther
    /\ at_start = Snapshot
    /\ env = AnyEnv

Place(name) ==
    /\ phase = "setup"
    /\ name \notin archives
    /\ Cardinality(archives) < MaxFiles
    /\ archives' = archives \cup {name}
    /\ UNCHANGED <<returned, phase, exportVars>>

\* one call on an arbitrary directory
Allocate ==
    /\ phase = "setup"
    /\ \E existing_zips \in Listings(Glob(archives)) :
           returned' = Append(returned, get_next_version(existing_zips))
    /\ phase' = "done"
    /\ UNCHANGED <<archives, exportVars>>

AllocNext == (\E name \in Pool : Place(name)) \/ Allocate

SpecAlloc == AllocInit /\ [][AllocNext]_vars

\* test_consecutive_versions_monotonic: call, create the archive, repeat
PlaceOther(name) ==
    /\ returned = <<>>
    /\ Place(name)

Call ==
    /\ phase \in {"setup", "touched"}
    /\ Len(returned) < MaxCalls
    /\ \E existing_zips \in Listings(Glob(archives)) :
           returned' = Append(returned, get_next_version(existing_zips))
    /\ phase' = "called"
    /\ UNCHANGED <<archives, exportVars>>

Touch ==
    /\ phase = "called"
    /\ archives' = archives \cup {ArchiveName(returned[Len(returned)])}
    /\ phase' = "touched"
    /\ UNCHANGED <<returned, exportVars>>

SeqNext == (\E name \in NonMatching : PlaceOther(name)) \/ Call \/ Touch

SpecSeq == AllocInit /\ [][SeqNext]_vars

----------------------------------------------------------------------------
(* Properties of the Version Allocator *)

\* the patch component of a returned version, as the tests read it:
\* int(v.split('.')[-1])
PatchOf(ver) ==
    LET parts == Split(ver, ".") IN ParseInt(parts[Len(parts)]).val

IsVersionTriple(ver) ==
    LET parts == Split(ver, ".")
    IN  /\ Len(parts) = 3
        /\ parts[1] = <<"1">> /\ parts[2] = <<"1">>
        /\ parts[3] # <<>> /\ \A i \in 1..Len(parts[3]) : IsDigit(parts[3][i])

\* the text between "<mod_name>_1.1." and ".zip"
PatchText(name) == SubSeq(name, Len(GlobPrefix) + 1, Len(name) - Len(ZipSuffix))

\* name is exactly <mod_name>_1.1.<patch>.zip with a patch written in digits
IsPatchArchive(name) ==
    /\ GlobMatch(name)
    /\ PatchText(name) # <<>>
    /\ \A i \in 1..Len(PatchText(name)) : IsDigit(PatchText(name)[i])

\* ... written as exactly four digits
IsPaddedArchive(name) == IsPatchArchive(name) /\ Len(PatchText(name)) = 4

PatchNumber(name) == DigitsValue(PatchText(name), 0)

SetMax(S) == CHOOSE m \in S : \A x \in S : x <= m

\* C1: from a directory with no matching archives, N sequential calls, each
\* followed by creating <mod_name>_<returned>.zip, return the patch
\* components 1, 2, ..., N in that order.
C1_SequentialPatches ==
    \A i \in 1..Len(returned) :
        IsVersionTriple(returned[i]) /\ PatchOf(returned[i]) = i

C1_Witness == Len(returned) >= 4 /\ phase = "touched" /\ archives \cap NonMatching # {}

C3_FourDigitPatch ==
    \A i \in 1..Len(returned) :
        /\ IsVersionTriple(returned[i])
        /\ Len(Split(returned[i], ".")[3]) = 4

\* C4: archives whose patch is not written as four digits, and archives of
\* another major.minor, are ignored: the patch allocated is one more than the
\* highest four-digit patch present.
C4_OldFormatIgnored ==
    (phase = "done" /\ \A f \in archives : IsPatchArchive(f) \/ f \in NonMatching)
        => PatchOf(returned[1]) =
             SetMax({0} \cup {PatchNumber(f) : f \in {g \in archives : IsPaddedArchive(g)}}) + 1

\* C5: files that are not exactly <mod_name>_1.1.<integer patch>.zip do not
\* change the result: the version returned equals the one returned with
\* those files removed.
C5_ForeignFilesIgnored ==
    phase = "done"
        => \A l \in Listings(Glob({f \in archives : IsPatchArchive(f)})) :
               returned[1] = get_next_version(l)

----------------------------------------------------------------------------
(* Properties of the export cycle *)

\* the value of a manifest file's version key, <<>> when it has none
VersionField(file) ==
    LET doc == json_load(file) IN
    IF doc.ok /\ doc.kind = "object" /\ HasKey(doc.info, "version")
    THEN doc.info[CHOOSE i \in 1..Len(doc.info) : doc.info[i].key = "version"].text
    ELSE <<>>

\* the version in an archive's file name: what is left of it without the
\* leading "<mod_name>_" and the trailing ".zip"
VersionInName(name) == SubSeq(name, Len(mod_name) + 2, Len(name) - Len(ZipSuffix))

Terminal == {"Done", "Failed", "Raised"}

\* C6: after an export cycle in which both manifest updates succeeded and the
\* archive was created, the source manifest, the exported manifest and the
\* new archive's file name all carry the version the allocator returned.
C6_VersionsInSync ==
    (pc = "Done" /\ src_ok /\ exp_ok /\ arch_ok)
        => /\ version # <<>>
           /\ VersionField(source.info) = version
           /\ VersionField(exported.info) = version
           /\ archive_name \in archives
           /\ StartsWith(archive_name, mod_name \o <<"_">>)
           /\ EndsWith(archive_name, ZipSuffix)
           /\ VersionInName(archive_name) = version

C6_Witness ==
    /\ pc = "Done" /\ src_ok /\ exp_ok /\ arch_ok
    /\ prev.done /\ prev.archived
    /\ version # prev.version

\* C7: a successful update_info_version(v) on a valid manifest (an object with
\* a version key) keeps every other top-level key with its value and type,
\* sets version to v, and adds or removes no key.
C7_UpdateKeepsOtherKeys ==
    (src_ok /\ VersionField(info_before) # <<>>)
        => LET old == json_load(info_before).info
               new == json_load(source.info).info
           IN  /\ json_load(source.info).ok
               /\ Len(new) = Len(old)
               /\ \A i \in 1..Len(old) :
                      /\ new[i].key = old[i].key
                      /\ old[i].key # "version" => new[i] = old[i]
                      /\ old[i].key = "version" =>
                             new[i].type = "string" /\ new[i].text = version

C7_Witness ==
    /\ pc = "UpdatingExported" /\ src_ok
    /\ VersionField(info_before) # <<>>
    /\ VersionField(info_before) # version
    /\ Len(json_load(info_before).info) > 1

\* C8: when the resolved destination directory does not exist, export fails
\* (exit code 1) from the validation, and no step of the run has changed any
\* file or directory.
C8_MissingDestinationFailsClean ==
    (pc \notin {"Idle", "ResolvingDestination"} /\ dest_dir # "none" /\ ~DirExists(dest_dir))
        => /\ pc \in {"Validating", "Failed"}
           /\ ~mutated
           /\ pc = "Failed" => ExitCode = 1

C8_Witness ==
    /\ pc = "Failed" /\ dest_dir = "missing"
    /\ exported.exists /\ archives # {}

\* C9: two exports in succession against the same destination produce
\* archives with consecutive patch numbers, and after the second the exported
\* tree holds only entries of the source as it is at the second run.
C9_SecondRunReplaces ==
    (pc = "Done" /\ prev.done)
        => /\ (arch_ok /\ prev.archived) => PatchOf(version) = PatchOf(prev.version) + 1
           /\ exported.entries \subseteq source.entries
           /\ exported.info.kind # "absent" => source.info.kind # "absent"
           /\ \A e \in prev.copied : e \notin source.entries => e \notin exported.entries

C9_Witness ==
    /\ pc = "Done" /\ prev.done /\ arch_ok /\ prev.archived
    /\ \E e \in prev.copied : e \notin source.entries

\* C10: once copying and verification succeeded, a create_archive that fails
\* does not fail the export: it ends Done (exit code 0) with the exported
\* tree in place.
C10_ArchiveFailureNotFatal ==
    (pc \in Terminal /\ version # <<>> /\ ~arch_ok)
        => pc = "Done" /\ ExitCode = 0 /\ exported.exists

C10_Witness == pc = "Done" /\ version # <<>> /\ ~arch_ok /\ archive_name \notin archives

\* C11: a manifest update that fails to read, parse or write returns False
\* and raises nothing; the two updates of create_archive are independent (the
\* exported one is attempted after a failed source one, a failed exported one
\* leaves the source manifest as the source update wrote it), and whatever
\* the two outcomes the archive is attempted.
C11_ManifestFailuresContained ==
    /\ (pc \in Terminal /\ version # <<>>)
           => pc = "Done" /\ archive_name = ArchiveName(version)
    /\ (pc \in {"UpdatingExported", "WritingArchive", "Done"} /\ ~src_ok)
           => source.info \in {info_before, Truncated}
    /\ (pc \in {"UpdatingExported", "WritingArchive", "Done"} /\ src_ok)
           => VersionField(source.info) = version
    /\ (pc \in {"WritingArchive", "Done"} /\ exp_ok)
           => VersionField(exported.info) = version

C11_Witness ==
    /\ pc = "Done" /\ ~src_ok /\ exp_ok
    /\ archive_name \in archives
    /\ VersionField(exported.info) # VersionField(source.info)

\* C12 (as stated): a successful export writes the archive into the parent
\* directory of the destination, <destination's parent>/<mod_name>_<version>.zip,
\* <destination>/<mod_name>/ being the exported tree, and the allocator scans
\* that parent directory.
C12_ArchiveInDestinationParent ==
    (pc = "Done" /\ arch_ok)
        => /\ mod_dest = DirPath(dest_dir) \o <<mod_name>>
           /\ archive_path = Parent(DirPath(dest_dir)) \o <<ArchiveName(version)>>
           /\ archive_name \in Listing(Parent(DirPath(dest_dir)))

\* C12 (amended): a successful export writes the archive into the destination
\* directory itself, <destination>/<mod_name>_<version>.zip, beside the
\* exported tree <destination>/<mod_name>/; the allocator scans that same
\* directory, and nothing is written into the directory above it.
C12_ArchiveBesideExportedTree ==
    (pc = "Done" /\ arch_ok)
        => /\ mod_dest = DirPath(dest_dir) \o <<mod_name>>
           /\ archive_path = DirPath(dest_dir) \o <<ArchiveName(version)>>
           /\ archive_name \in Listing(DirPath(dest_dir))
           /\ parent_archives = ParentArchives
           /\ \E l \in Listings(Glob(Listing(DirPath(dest_dir)) \ {archive_name})) :
                  version = get_next_version(l)

C12_Witness ==
    /\ pc = "Done" /\ arch_ok
    /\ archives = InitialArchives \cup {ArchiveName(<<"1", ".", "1", ".", "6">>)}
    /\ archive_name = ArchiveName(<<"1", ".", "1", ".", "6">>)
    /\ parent_archives # {}

\* C13: a successfully created archive holds one entry for every regular file
\* under the exported directory and no other entry, each at the internal path
\* <mod_name>/<path relative to the exported directory>, whatever name the
\* exported directory has on disk.
C13_ArchiveMirrorsExportedFiles ==
    (pc = "Done" /\ arch_ok)
        => /\ \A z \in zip_entries :
                  /\ z[1] = mod_name
                  /\ Tail(z) \in exported.entries \cup {<<InfoName>>}
                  /\ Tail(z)[Len(Tail(z))] \notin DirNames
                  /\ Tail(z) = <<InfoName>> => exported.info.kind # "absent"
           /\ \A e \in exported.entries :
                  e[Len(e)] \notin DirNames => <<mod_name>> \o e \in zip_entries
           /\ exported.info.kind # "absent" => <<mod_name, InfoName>> \in zip_entries

C13_Witness ==
    /\ pc = "Done" /\ arch_ok
    /\ mod_dest[Len(mod_dest)] = OldName
    /\ <<mod_name, TestsDir, TLua>> \in zip_entries
    /\ <<mod_name, InfoName>> \in zip_entries
    /\ Cardinality(zip_entries) < Cardinality(exported.entries) + 1

----------------------------------------------------------------------------
(* Properties of the Tree Copier *)

\* C14: on the same source tree and exclude patterns the rsync strategy and
\* the fallback strategy leave the same set of relative paths under dst,
\* nested entries and names that merely start with a pattern included.
C14_StrategiesAgree ==
    (pc = "ReturnedByRsync" /\ ~IsInside(mod_dest))
        => /\ exported.entries = FallbackCopy(source, NoTree).entries
           /\ exported.info = FallbackCopy(source, NoTree).info

\* C15: after copy_tree returned, whichever strategy ran, dst holds every
\* entry of src for which should_exclude is false, at the same relative path.
C15_KeptEntriesCopied ==
    (pc \in {"ReturnedByRsync", "ReturnedByFallback"} /\ ~IsInside(mod_dest))
        => \A e \in source.entries : ~should_exclude(e) => e \in exported.entries

\* C16: when rsync is present and exits non-zero, copy_tree neither fails nor
\* returns: the fallback strategy runs over the whole source tree; copy_tree
\* returns without the fallback only when rsync exited zero.
C16_NonZeroFallsBack ==
    /\ phase = "rsync_nonzero" => pc \in {"FallingBack", "ReturnedByFallback", "CopyRaised"}
    /\ (phase = "rsync_nonzero" /\ pc = "ReturnedByFallback")
           => /\ \A e \in OutsideDst(source, mod_dest) :
                     ~should_exclude(e) => e \in exported.entries
              /\ source.info.kind # "absent" => exported.info = source.info
    /\ pc = "ReturnedByRsync" => phase = "rsync_zero"
    /\ pc = "ReturnedByFallback" => phase \in {"no_rsync", "rsync_nonzero"}

C16_Witness ==
    /\ phase = "rsync_nonzero" /\ pc = "ReturnedByFallback"
    /\ <<Lib, TestsDir, XLua>> \in exported.entries
    /\ <<CLua>> \in exported.entries
    /\ exported.info.kind # "absent"

\* C17 (as stated): copy_tree changes the file system under dst only: for
\* every src and dst, a dst inside src included, the entries and contents of
\* src outside dst are the same before and after.
C17_OnlyUnderDst ==
    [][ /\ OutsideDst(source', mod_dest) = OutsideDst(source, mod_dest)
        /\ source'.info = source.info ]_vars

\* C17 (amended): copy_tree changes nothing of src but dst, what lies below
\* dst, and the missing directories above dst, which the fallback strategy
\* creates; when the parent of dst exists, src outside dst is the same before
\* and after.
C17_OnlyDstAndMissingAncestors ==
    [][ /\ OutsideDst(source, mod_dest) \subseteq OutsideDst(source', mod_dest)
        /\ \A e \in OutsideDst(source', mod_dest) \ OutsideDst(source, mod_dest) :
               IsInside(mod_dest) /\ e \in Ancestors(relative_to(mod_dest, SrcDir))
        /\ ParentExists(source, mod_dest)
               => OutsideDst(source', mod_dest) = OutsideDst(source, mod_dest)
        /\ source'.info = source.info ]_vars

C17_Witness ==
    /\ pc = "ReturnedByFallback"
    /\ mod_dest = SrcDir \o <<Factorio, Mods, mod_name>>
    /\ <<Factorio, Mods, mod_name, Lib, TestsDir, XLua>> \in source.entries
    /\ <<Factorio, Mods, mod_name, InfoName>> \in source.entries
    /\ <<Out>> \in source.entries

\* C18: should_exclude is true iff some configured pattern matches the path:
\* a pattern starting with "*" matches iff the final component ends with the
\* rest of the pattern, any other pattern iff the relative path string starts
\* with it or the final component equals it; the result depends neither on
\* the order of the pattern list nor on earlier calls.
C18_ExcludeIffSomePatternMatches ==
    phase = "filter"
        => \A i \in 1..Len(returned) :
               LET path == returned[i].path
                   name == path[Len(path)]
               IN  returned[i].result =
                     \E k \in 1..Len(exclude_patterns) :
                         LET pattern == exclude_patterns[k] IN
                         \/ pattern[1] = "*" /\ EndsWith(name, Tail(pattern))
                         \/ pattern[1] # "*" /\ StartsWith(PathStr(path), pattern)
                         \/ pattern[1] # "*" /\ name = pattern

C18_Witness ==
    /\ phase = "filter" /\ Len(returned) = 2
    /\ returned[1].path = <<Lib, APyc>> /\ returned[1].order = "configured"
    /\ returned[2].path = <<Lib, APyc>> /\ returned[2].order = "reversed"
    /\ returned[1].result /\ returned[2].result

----------------------------------------------------------------------------
(* Properties of the destination resolution *)

\* this run has resolved its destination
Resolved == pc \notin {"Idle", "ResolvingDestination"} /\ env # AnyEnv

\* C19 (as stated): the destination is the explicit argument when there is
\* one; otherwise the configured directory; otherwise the detected symlink's
\* mods subfolder; otherwise the OS default; with none of the four, export
\* fails and has changed nothing.
C19_StrictPriority ==
    Resolved
        => /\ env.user_path # "none" => dest_dir = env.user_path
           /\ (env.user_path = "none" /\ env.config_dir # "none")
                  => dest_dir = env.config_dir
           /\ (env.user_path = "none" /\ env.config_dir = "none" /\ env.symlink # "none")
                  => dest_dir = env.symlink
           /\ (env.user_path = "none" /\ env.config_dir = "none" /\ env.symlink = "none")
                  => dest_dir = env.os_default
           /\ dest_dir = "none" => pc = "Failed" /\ ~mutated /\ ExitCode = 1

\* C19 (amended): the destination is the explicit argument when there is
\* one; otherwise the configured directory when that directory exists;
\* otherwise the detected symlink's mods subfolder; otherwise the OS default;
\* with none of the four, export fails and has changed nothing.
C19_PriorityWithExistingConfigured ==
    Resolved
        => LET configured == env.config_dir # "none" /\ DirExists(env.config_dir) IN
           /\ env.user_path # "none" => dest_dir = env.user_path
           /\ (env.user_path = "none" /\ configured) => dest_dir = env.config_dir
           /\ (env.user_path = "none" /\ ~configured /\ env.symlink # "none")
                  => dest_dir = env.symlink
           /\ (env.user_path = "none" /\ ~configured /\ env.symlink = "none")
                  => dest_dir = env.os_default
           /\ dest_dir = "none" => pc = "Failed" /\ ~mutated /\ ExitCode = 1

C19_Witness ==
    /\ pc = "Done" /\ nruns = 1
    /\ env = Environment("none", "missing", "mods", "missing")
    /\ dest_dir = "mods"
    /\ prev.version # <<>>

----------------------------------------------------------------------------
(* Order of the steps of an export run *)

\* the step that follows each step when it succeeds
NextStep ==
    [ResolvingDestination |-> "Validating", Validating |-> "Cleaning",
     Cleaning |-> "Copying", Copying |-> "Verifying", Verifying |-> "Archiving",
     Archiving |-> "UpdatingSource", UpdatingSource |-> "UpdatingExported",
     UpdatingExported |-> "WritingArchive", WritingArchive |-> "Done"]

\* C20: every export run takes its steps in the order resolve destination,
\* validate, clean, copy, verify, archive, and within archive allocate the
\* version, rewrite the source manifest, rewrite the exported manifest, write
\* the archive file: a step is followed by the next one or by the end of the
\* run, never repeated or skipped; what lies at <destination>/<mod_name> is
\* removed only by the clean step, entered only after both validations
\* passed; the version is allocated only after the copy was verified.
C20_FixedStepOrder ==
    [][ /\ (pc \in DOMAIN NextStep /\ pc' # pc)
               => pc' \in {NextStep[pc], "Failed", "Raised"}
        /\ pc \in DOMAIN NextStep => pc' # pc
        /\ pc' = "Done" => pc = "WritingArchive"
        /\ pc' = "Cleaning" => pc = "Validating" /\ DirExists(dest_dir) /\ source.exists
        /\ ((exported.exists /\ ~exported'.exists)
                \/ \E e \in exported.entries : e \notin exported'.entries)
               => pc = "Cleaning"
        /\ pc' = "Archiving"
               => pc = "Verifying" /\ exported.exists /\ exported.info.kind # "absent"
        /\ (version' # version /\ version' # <<>>) => pc = "Archiving" ]_vars

C20_Witness ==
    /\ pc = "Done" /\ arch_ok /\ nruns = 1
    /\ prev.done /\ prev.copied # {}
    /\ exported.entries # prev.copied
    /\ archive_name \in archives

\* C27: after the fallback strategy dst holds no file or directory that
\* should_exclude reports as excluded, the directories created as parents of
\* copied files included (rsync absent, dst outside src and absent before).
C27_FallbackLeavesNoExcluded ==
    (pc = "ReturnedByFallback" /\ phase = "no_rsync" /\ ~IsInside(mod_dest))
        => \A e \in exported.entries : ~should_exclude(e)

\* C25: with exports run one after the other, from the allocation of the
\* version until the archive is written, no file of the scanned directory has
\* the name <mod_name>_<version>.zip: the write creates a new file.
C25_ArchiveNameIsFresh ==
    pc \in {"UpdatingSource", "UpdatingExported", "WritingArchive"}
        => ArchiveName(version) \notin Listing(dest_parent)

C25_Witness ==
    /\ pc = "WritingArchive"
    /\ prev.done /\ prev.archived
    /\ ArchiveName(prev.version) \in Listing(dest_parent)
    /\ InitialArchives \subseteq Listing(dest_parent)
    /\ PatchOf(version) = PatchOf(prev.version) + 1

\* C29: of two consecutive exports that both return success and both stamp
\* the source manifest, the second stamps a patch number strictly greater than
\* the first, also when the first wrote no archive.
C29_StampedPatchIncreases ==
    (/\ pc = "Done" /\ src_ok
     /\ prev.done /\ prev.version # <<>>
     /\ VersionField(info_before) = prev.version)
        => PatchOf(version) > PatchOf(prev.version)

\* C28: when create_archive returned True and the exported-manifest update
\* had returned True, the archive holds an info.json whose version field is
\* the version in the archive's file name.
C28_ArchivedManifestMatchesName ==
    (pc = "Done" /\ arch_ok /\ exp_ok)
        => /\ zip_info.kind # "absent"
           /\ VersionField(zip_info) = version
           /\ VersionInName(archive_name) = version

C28_Witness ==
    /\ pc = "Done" /\ arch_ok /\ exp_ok /\ ~src_ok
    /\ VersionField(info_before) # version
    /\ VersionField(zip_info) = <<"1", ".", "1", ".", "6">>
    /\ archive_name = ArchiveName(<<"1", ".", "1", ".", "6">>)

\* C26: the cleaning step of export leaves the source mod directory and
\* every file in it as they are, whatever the validated destination.
C26_CleaningSparesSource ==
    [][pc = "Cleaning" => source' = source]_vars

\* C30: an export that returns failure has left the version field of the
\* source manifest as the run found it and has created no archive file.
C30_FailureKeepsVersionAndArchives ==
    pc = "Failed"
        => /\ VersionField(source.info) = VersionField(at_start.info)
           /\ archives = at_start.archives
           /\ parent_archives = at_start.parent_archives

\* what the verification of export looks for
Verified == exported.exists /\ exported.info.kind # "absent"

\* C22: when after the copy mod_dest does not exist or holds no info.json, the
\* verification step ends the run in failure, having allocated no version and
\* changed no manifest and no archive, and nothing of the archive step runs
\* after it.
C22_FailedVerificationSkipsArchive ==
    [][/\ (pc = "Verifying" /\ ~Verified)
            => /\ pc' = "Failed"
               /\ version' = <<>> /\ archive_name' = <<>> /\ zip_entries' = {}
               /\ fs' = fs
       /\ pc = "Failed"
            => /\ pc' = "Idle"
               /\ version' = <<>> /\ archive_name' = <<>> /\ zip_entries' = {}
               /\ fs' = fs]_vars

C22_Witness ==
    /\ pc = "Failed"
    /\ mod_dest = ModsDir \o <<mod_name>>
    /\ source.info.kind = "absent"
    /\ exported.exists /\ exported.entries = {<<CLua>>} /\ exported.info.kind = "absent"
    /\ version = <<>>
    /\ archives = at_start.archives

\* the positions of a run inside create_archive
ArchiveStages == {"Archiving", "UpdatingSource", "UpdatingExported", "WritingArchive"}

\* C21 (as stated): Failed is reachable from every non-terminal state, the
\* archive stage included, and no step of the run follows Done or Failed.
\* The last step of the archive stage is followed by the end of the run, so
\* there Failed is reachable only if that step can end in Failed.
C21_FailedReachableFromEveryStage ==
    /\ pc = "WritingArchive" => ENABLED (ResolveNext /\ pc' = "Failed")
    /\ pc \in {"Done", "Failed"} => ~ENABLED (ResolveNext /\ (pc' # "Idle" \/ fs' # fs))

\* C21 (amended): a run can end in Failed from the resolution, the validation,
\* the cleaning (through the copy) and the copy, from the verification exactly
\* when the copied tree lacks info.json, and from no position of the archive
\* stage, each of which can only hand over to the next one; after Done or
\* Failed only the process exit follows, and it changes no file.
C21_FailedOnlyBeforeArchive ==
    /\ [](/\ pc = "ResolvingDestination"
               => ENABLED (ResolveDestination /\ pc' \in {"Failed", "Validating"})
          /\ pc = "Validating" => ENABLED (Validate /\ pc' \in {"Failed", "Cleaning"})
          /\ pc = "Cleaning" => ENABLED (Clean /\ pc' = "Copying")
          /\ pc = "Copying" => ENABLED (Copy /\ pc' = "Failed")
          /\ pc = "Verifying" => (ENABLED (Verify /\ pc' = "Failed") <=> ~Verified))
    /\ [][/\ pc = "Cleaning" => pc' \in {"Copying", "Raised"}
          /\ pc \in ArchiveStages => pc' = NextStep[pc]
          /\ pc \in {"Done", "Failed"} => (pc' = "Idle" /\ fs' = fs)]_vars

C21_Witness ==
    /\ pc = "WritingArchive"
    /\ ~src_ok /\ ~exp_ok
    /\ ENABLED (WriteArchive /\ ~arch_ok' /\ pc' = "Done")

\* C23 (as stated): every started export run eventually reaches Done or
\* Failed.
C23_EveryRunReturns ==
    (pc \notin {"Idle"} \cup Terminal) ~> (pc \in {"Done", "Failed"})

\* C23 (amended): every started export run ends: it reaches Done or Failed, or
\* an exception that export lets through ends the process (exit code 1); no
\* position of the run is one where it stays forever.
C23_EveryRunEnds ==
    (pc \notin {"Idle"} \cup Terminal) ~> (pc \in Terminal)

C23_Witness ==
    /\ pc = "Raised"
    /\ source.exists
    /\ exported.exists /\ exported.entries = {}
    /\ mutated
    /\ exported.exists /\ exported.info.kind = "absent"

\* both runs hold a version and neither has written its archive
Allocated == {"UpdatingSource", "UpdatingExported", "WritingArchive"}

\* C24: no lock separates two concurrent exports to one destination: two
\* runs that have both allocated before either wrote hold the same version
\* and archive name, and a cleaning step taken while the other run is copying
\* or archiving removes the tree the other run is working on.
C24_NothingSeparatesConcurrentRuns ==
    /\ [](pc \in Allocated /\ other.pc \in Allocated
             => /\ version = other.version
                /\ ArchiveName(version) = ArchiveName(other.version))
    /\ [][(/\ pc = "Cleaning" /\ pc' = "Copying"
           /\ other.pc \in {"Copying", "CopyingItems", "Verifying", "Archiving"} \cup Allocated)
              => (~exported'.exists /\ other' = other)]_vars

C24_Witness ==
    /\ pc = "Done" /\ arch_ok
    /\ other.pc = "Done"
    /\ version = other.version
    /\ archive_name = ArchiveName(other.version)
    /\ other.cut

====
